---- MODULE Spec2Model ----
(***************************************************************************)
(* A model of crewAI's Tool Invocation Engine (crewai/tools/tool_usage.py, *)
(* class ToolUsage) and of its Crew Orchestrator (crewai/crew.py, class    *)
(* Crew).                                                                  *)
(*                                                                         *)
(* Spec     : one ToolsHandler (last_used_tool, cache) and one Task        *)
(*            (used_tools) shared by successive ToolUsage instances; each  *)
(*            top-level use() call is followed statement by statement.     *)
(*            The model backend (the parser) and the tools are the         *)
(*            environment: every parse may fail or return any ToolCalling, *)
(*            every tool run may return any result or raise any error.     *)
(* CadenceSpec : the same actions over a narrower environment and more     *)
(*            calls, for the every-3rd-usage reminder.                     *)
(* CrewSpec : construction of a Crew (its model validators, in definition  *)
(*            order) over a set of constructor arguments, then kickoff()   *)
(*            followed task by task.                                       *)
(***************************************************************************)
EXTENDS Integers, Sequences, FiniteSets, TLC

\* ---------------------------------------------------------------- bounds
\* Number of distinct string values an argument can take.
MaxStr == 1
\* Number of top-level use() calls followed in one behaviour of Spec.
MaxCalls == 3
\* Number of top-level use() calls followed in one behaviour of CadenceSpec.
MaxCadenceCalls == 6
\* Longest task list given to a Crew.
MaxTasks == 3
\* Number of kickoff() calls followed on one Crew.
MaxKickoffs == 2
\* Number of top-level use() calls followed in one behaviour of TermSpec.
MaxTermCalls == 2

\* ------------------------------------------------------ program constants
\* ToolUsage.__init__: self._max_parsing_attempts = 2
_max_parsing_attempts == 2
\* ToolUsage.__init__: self._run_attempts = 1
InitialAttempts == 1
\* ToolUsage.__init__: self._remeber_format_after_usages = 3
_remeber_format_after_usages == 3

\* ------------------------------------------------------------ value sets
\* self.tools: the registered tools, by name, in registration order.
tools == <<"Search", "search">>
\* The function_name values the parser can produce.
FunctionNames == {"search", "Search", "nope"}
\* An argument value: a str or an int (ToolCalling.arguments is a dict).
ArgValues ==
    {[type |-> "str", val |-> v] : v \in 1..MaxStr} \cup {[type |-> "int", val |-> 1]}
\* calling.arguments: a mapping from argument names to values.
Arguments == [{"q"} -> ArgValues]
\* ToolCalling(function_name, arguments); == is field-wise value equality.
ToolCalling == [function_name : FunctionNames, arguments : Arguments]
\* What a tool's _run can return ("" is falsy in Python) ...
Results == {"", "r1", "r2"}
\* ... and the detail of the exception it can raise.
Errors == {"e1", "e2"}
\* Python's None, as returned by cache.read for a missing key.
None == "<None>"

VARIABLES
    \* ---- ToolUsage, ToolsHandler, Task
    pc,             \* position inside use(): "idle" | "parse" | "select" | "use"
    run_attempts,   \* ToolUsage._run_attempts
    calling,        \* the ToolCalling parsed by the current (recursive) use()
    tool,           \* index in tools of the tool _select_tool returned (0: none)
    last_used_tool, \* ToolsHandler.last_used_tool: {} (falsy) or {ToolCalling}
    cache,          \* ToolsHandler.cache: key -> stored output, None if absent
    used_tools,     \* Task.used_tools
    ret,            \* how the last top-level use() ended and what it returned
    log,            \* history: the events of the current top-level use() call
    pre,            \* history: the counters at the start of the current call
    nCalls,         \* history: top-level use() calls started on this task
    allOk,          \* history: every call so far returned a tool result
    \* ---- Crew
    cpc,            \* position of the Crew: construction, kickoff() and its loops
    process,        \* Crew.process
    agents,         \* Crew.agents: a list of agent ids
    tasks,          \* Crew.tasks: a list of task records
    manager_llm,    \* Crew.manager_llm is given (truthy)
    manager_agent,  \* Crew.manager_agent: {} (None) or {agent id}
    config,         \* Crew.config
    full_output,    \* Crew.full_output
    max_rpm,        \* Crew.max_rpm is given (truthy)
    allow_delegation, \* Agent.allow_delegation, per agent id
    agent_tools,    \* Agent.tools, per agent id
    i,              \* index of the task the process loop is at
    task_output,    \* the local task_output of the running process procedure
    metrics,        \* the local list metrics of kickoff(): usage summaries
    usage_metrics,  \* Crew.usage_metrics: <<>> (None) or key -> sum
    task_callback,  \* Crew.task_callback
    usage,          \* each agent's token counter (_token_process), per agent id
    summary_keys,   \* the keys of each agent's get_summary(), per agent id
    result,         \* what the last kickoff() returned
    rpm_stops,      \* calls of _rpm_controller.stop_rpm_counter()
    error,          \* the exception construction or kickoff() ended with
    hpass,          \* history: which call of _run_hierarchical_process runs
    nExec,          \* history: task.execute calls so far (names the outputs)
    kickoffs,       \* history: kickoff() calls started
    procRuns,       \* history: process procedures started by this kickoff()
    kpre            \* history: the Crew at the start of this kickoff()

toolVars == <<pc, run_attempts, calling, tool, last_used_tool, cache, used_tools,
              ret, log, pre, nCalls, allOk>>
crewVars == <<cpc, process, agents, tasks, manager_llm, manager_agent, config,
              full_output, max_rpm, allow_delegation, agent_tools, i,
              task_output, metrics, usage_metrics, task_callback, usage,
              summary_keys, result, rpm_stops, error, hpass, nExec, kickoffs,
              procRuns, kpre>>
\* What no step after Crew(...) changes.
crewFixed == <<task_callback, summary_keys>>
vars == <<toolVars, crewVars>>

\* -------------------------------------------------------------- helpers
\* str.lower() on the names of the model.
lower(s) ==
    CASE s = "Search" -> "search"
      [] s = "search" -> "search"
      [] s = "nope" -> "nope"
      [] OTHER -> s

\* Python truthiness of a cache/tool result: None and "" are falsy.
Truthy(r) == r # None /\ r # ""

\* The key CacheHandler uses: (tool, input).
Keys == FunctionNames \X Arguments
CacheKey(c) == <<c.function_name, c.arguments>>

\* ", ".join(calling.arguments.values()) raises TypeError unless every value
\* is a str.
JoinRaises(c) == \E k \in DOMAIN c.arguments : c.arguments[k].type # "str"

\* An observation: what use() returns. kind names the i18n template, or is
\* "result" for a tool output; text is the tool output or the error detail
\* formatted into the template; reminder says whether _remember_format
\* appended the tools block.
Obs(kind, text, reminder) == [kind |-> kind, text |-> text, reminder |-> reminder]
NoObs == Obs("none", "", FALSE)
NoRet == [status |-> "none", obs |-> NoObs]
Returned(o) == [status |-> "returned", obs |-> o]
Raised == [status |-> "raised", obs |-> NoObs]

Event(ev, c, text) == [ev |-> ev, call |-> c, text |-> text]

\* ---------------------------------------------------------- ToolsHandler
\* cache.read(tool=..., input=...)
cache_read(c) == cache[CacheKey(c)]
\* cache.add(tool=..., input=..., output=...)
cache_add(c, output) == [cache EXCEPT ![CacheKey(c)] = output]
\* tools_handler.on_tool_start(calling), called before the cache is read: a
\* call the cache can serve is recorded as the last used tool.
on_tool_start(c) == IF cache_read(c) # None THEN {c} ELSE last_used_tool
\* tools_handler.on_tool_end(calling, output), called after a run returned:
\* the successful call is recorded as the last used tool, and its output is
\* stored in the cache.
on_tool_end(c) == {c}

\* ------------------------------------------------------------- ToolUsage
\* Mutant: the reminder one usage early (the test made before the increment).
_should_remember_format_early(n) == (n + 1) % _remeber_format_after_usages = 0
\* _should_remember_format, with task.used_tools = n.
_should_remember_format(n) == n % _remeber_format_after_usages = 0

\* _format_result(result): task.used_tools += 1, then the reminder block is
\* appended when _should_remember_format. Gives the observation returned.
_format_result(kind, text) ==
    Obs(kind, text, _should_remember_format(used_tools + 1))

\* _check_tool_repeated_usage(calling)
_check_tool_repeated_usage(c) ==
    last_used_tool # {} /\ c \in last_used_tool

\* Mutant: the last registered tool with a matching name is returned.
_select_tool_last(tool_name) ==
    LET hits == {k \in 1..Len(tools) : lower(tools[k]) = lower(tool_name)}
    IN  IF hits = {} THEN 0 ELSE CHOOSE k \in hits : \A j \in hits : k >= j
\* _select_tool(tool_name): the index of the first registered tool whose
\* lower-cased name equals the lower-cased tool_name, 0 when it raises.
_select_tool(tool_name) ==
    LET hits == {k \in 1..Len(tools) : lower(tools[k]) = lower(tool_name)}
    IN  IF hits = {} THEN 0 ELSE CHOOSE k \in hits : \A j \in hits : k <= j

\* Mutant: the parse bound tested with >= (gives up after one failure).
ParseAttemptsExceeded_ge(n) == n >= _max_parsing_attempts
\* Mutant: the parse bound of a counter of its own, one failure further.
ParseAttemptsExceeded_late(n) == n > _max_parsing_attempts + 1
\* _tool_calling, line 216: the test made after a parse failure raised the
\* counter to n.
ParseAttemptsExceeded(n) == n > _max_parsing_attempts
\* Mutant: the run bound tested with >= (gives up after one failure).
RunAttemptsExceeded_ge(n) == n >= _max_parsing_attempts
\* Mutant: the run bound one failure further.
RunAttemptsExceeded_late(n) == n > _max_parsing_attempts + 1
\* _use, line 100: the test made after a tool failure raised the counter to n.
RunAttemptsExceeded(n) == n > _max_parsing_attempts

\* The result test of _use, line 95: "if not result".
CacheMiss(r) == ~Truthy(r)

\* Mutant: the cache is looked up first; a call with a cached value skips
\* the guard.
PastGuard_cacheFirst(c) ==
    \/ ~_check_tool_repeated_usage(c) \/ JoinRaises(c)
    \/ ~CacheMiss(cache_read(c))
\* Whether _use goes on to line 89: the guard is off, or building its message
\* raised and the except clause swallowed it (lines 74-87).
PastGuard(c) == ~_check_tool_repeated_usage(c) \/ JoinRaises(c)

ToolInit ==
    /\ pc = "idle"
    /\ run_attempts = InitialAttempts
    /\ calling = {}
    /\ tool = 0
    /\ last_used_tool = {}
    /\ cache = [k \in Keys |-> None]
    /\ used_tools = 0
    /\ ret = NoRet
    /\ log = <<>>
    /\ pre = [run_attempts |-> 1, used_tools |-> 0]
    /\ nCalls = 0
    /\ allOk = TRUE

\* ToolUsage.__init__: a new instance over the same tools_handler and task.
NewToolUsage ==
    /\ pc = "idle"
    /\ run_attempts' = InitialAttempts
    /\ UNCHANGED <<pc, calling, tool, last_used_tool, cache, used_tools, ret,
                   log, pre, nCalls, allOk>>
    /\ UNCHANGED crewVars

\* Mutant: use() starts every call with the counter of a new instance.
AttemptsOnEntry_reset == InitialAttempts
\* self._run_attempts when use() is entered (lines 59-60): use() assigns
\* nothing to it, it is as the calls before left it.
AttemptsOnEntry == run_attempts

\* A caller invokes use(tool_string) (line 59); at most maxCalls are followed.
CallUse(maxCalls) ==
    /\ pc = "idle"
    /\ nCalls < maxCalls
    /\ pc' = "parse"
    /\ nCalls' = nCalls + 1
    /\ log' = <<>>
    /\ run_attempts' = AttemptsOnEntry
    /\ pre' = [run_attempts |-> AttemptsOnEntry, used_tools |-> used_tools]
    /\ ret' = NoRet
    /\ calling' = {}
    /\ tool' = 0
    /\ UNCHANGED <<last_used_tool, cache, used_tools, allOk>>
    /\ UNCHANGED crewVars

\* The top-level use() ends: it returns an observation or lets an exception
\* out.
Finish(r) ==
    /\ pc' = "idle"
    /\ ret' = r
    /\ allOk' = (allOk /\ r.status = "returned" /\ r.obs.kind = "result")

\* _tool_calling: the parser returned a ToolCalling of callings (line 221).
ParseOk(callings) ==
    /\ pc = "parse"
    /\ \E c \in callings :
        /\ calling' = {c}
        /\ log' = Append(log, Event("parse_ok", {c}, ""))
    /\ pc' = "select"
    /\ UNCHANGED <<run_attempts, tool, last_used_tool, cache, used_tools, ret,
                   pre, nCalls, allOk>>
    /\ UNCHANGED crewVars

\* _tool_calling: the parser raised (lines 214-219): the counter goes up and
\* the parse is tried again; past the bound, use() returns the
\* tool_usage_error message (lines 61-64).
ParseFail ==
    /\ pc = "parse"
    /\ run_attempts' = run_attempts + 1
    /\ log' = Append(log, Event("parse_fail", {}, ""))
    /\ IF ParseAttemptsExceeded(run_attempts + 1)
       THEN Finish(Returned(Obs("tool_usage_error", "", FALSE)))
       ELSE UNCHANGED <<pc, ret, allOk>>
    /\ UNCHANGED <<calling, tool, last_used_tool, cache, used_tools, pre, nCalls>>
    /\ UNCHANGED crewVars

\* use(), line 65: tool = self._select_tool(calling.function_name); its
\* exception is not caught.
SelectTool ==
    /\ pc = "select"
    /\ \E c \in calling :
        LET t == _select_tool(c.function_name)
        IN  IF t = 0
            THEN /\ Finish(Raised)
                 /\ log' = Append(log, Event("not_found", {c}, ""))
                 /\ UNCHANGED tool
            ELSE /\ tool' = t
                 /\ pc' = "use"
                 /\ UNCHANGED <<ret, log, allOk>>
    /\ UNCHANGED <<run_attempts, calling, last_used_tool, cache, used_tools,
                   pre, nCalls>>
    /\ UNCHANGED crewVars

\* _use, lines 74-85: the repeated-usage short-circuit.
UseRepeated ==
    /\ pc = "use"
    /\ \E c \in calling :
        /\ ~PastGuard(c)
        /\ used_tools' = used_tools + 1
        /\ Finish(Returned(_format_result("task_repeated_usage", "")))
        /\ log' = Append(log, Event("repeated", {c}, ""))
    /\ UNCHANGED <<run_attempts, calling, tool, last_used_tool, cache, pre, nCalls>>
    /\ UNCHANGED crewVars

\* _use, lines 89-95 and 109-115: the cache holds a truthy result.
UseCached ==
    /\ pc = "use"
    /\ \E c \in calling :
        /\ PastGuard(c)
        /\ ~CacheMiss(cache_read(c))
        /\ last_used_tool' = on_tool_start(c)
        /\ used_tools' = used_tools + 1
        /\ Finish(Returned(_format_result("result", cache_read(c))))
        /\ log' = Append(log, Event("cache_hit", {c}, cache_read(c)))
    /\ UNCHANGED <<run_attempts, calling, tool, cache, pre, nCalls>>
    /\ UNCHANGED crewVars

\* _use, lines 89-97 and 107-115: tool._run returned a result of results.
UseRunOk(results) ==
    /\ pc = "use"
    /\ \E c \in calling, r \in results :
        /\ PastGuard(c)
        /\ CacheMiss(cache_read(c))
        /\ last_used_tool' = on_tool_end(c)
        /\ cache' = cache_add(c, r)
        /\ used_tools' = used_tools + 1
        /\ Finish(Returned(_format_result("result", r)))
        /\ log' = Append(log, Event("run_ok", {c}, r))
    /\ UNCHANGED <<run_attempts, calling, tool, pre, nCalls>>
    /\ UNCHANGED crewVars

\* _use, lines 89-105: tool._run raised an error of errors: the counter goes
\* up and use() is called again; past the bound, the tool_usage_exception
\* message, formatted with the error, is returned.
UseRunRaise(errors) ==
    /\ pc = "use"
    /\ \E c \in calling, e \in errors :
        /\ PastGuard(c)
        /\ CacheMiss(cache_read(c))
        /\ last_used_tool' = on_tool_start(c)
        /\ run_attempts' = run_attempts + 1
        /\ log' = Append(log, Event("run_raise", {c}, e))
        /\ IF RunAttemptsExceeded(run_attempts + 1)
           THEN Finish(Returned(Obs("tool_usage_exception", e, FALSE)))
           ELSE /\ pc' = "parse"
                /\ UNCHANGED <<ret, allOk>>
    /\ UNCHANGED <<calling, tool, cache, used_tools, pre, nCalls>>
    /\ UNCHANGED crewVars

\* ------------------------------------------------------------------ Crew
\* The member agents a Crew is built over, and a further agent "m" that can
\* be given as manager_agent.
Pool == <<"a1", "a2">>
\* The agents _setup_from_config creates (Agent(**agent), line 234): new
\* objects, equal to none of the above.
ConfigPool == <<"c1", "c2">>
\* "manager" and "manager2" are the Agents the first and the second call of
\* _run_hierarchical_process create when there is no manager_agent.
AgentIds == {"a1", "a2", "c1", "c2", "m", "manager", "manager2"}

\* The delegation tool for agent a.
AskTool(a) ==
    CASE a = "a1" -> "ask a1"
      [] a = "a2" -> "ask a2"
      [] OTHER -> "ask other"

\* AgentTools(agents=agts).tools(): the delegation tools, one per agent.
AgentTools(agts) == [k \in 1..Len(agts) |-> AskTool(agts[k])]

\* Task.callback and Crew.task_callback when none is given (None).
NoCallback == "<no callback>"

\* A Task as given to the Crew: its agent, async_execution flag and callback;
\* tools is Task.tools, output is Task.output (0: None). context, by, passed
\* and execs are history: the context, the agent and the tools argument of
\* its last execute() and the number of execute() calls in the current
\* kickoff().
Task(agent, async, callback) ==
    [agent |-> agent, async_execution |-> async, callback |-> callback,
     tools |-> <<>>, output |-> 0, context |-> 0, by |-> "", passed |-> <<>>,
     execs |-> 0]

\* The task lists a Crew is constructed with: up to MaxTasks tasks, given to
\* the pool's agents in turn, each async_execution or not; the first task
\* defines a callback of its own or not, the others define none.
TaskLists ==
    UNION {{[k \in 1..n |->
                Task(Pool[((k - 1) % Len(Pool)) + 1], f[k],
                     IF k = 1 /\ own THEN "own callback" ELSE NoCallback)] :
                f \in [1..n -> BOOLEAN], own \in IF n = 0 THEN {FALSE} ELSE BOOLEAN} :
           n \in 0..MaxTasks}

\* The keys of a usage summary, and a key only some summaries hold.
MetricKeys == {"total_tokens", "prompt_tokens"}
ExtraKey == "completion_tokens"
\* The key sets the summary of an agent can have.
KeySets == {MetricKeys, {"total_tokens"}, MetricKeys \cup {ExtraKey}}

\* kpre while no kickoff() has started.
KPre0 == [manager_tools |-> 0, nExec |-> 0, outputs |-> <<>>, rpm_stops |-> 0,
          callbacks |-> <<>>]

\* Crew.config: given says whether it is truthy; agents and tasks are the
\* lengths of config["agents"] and config["tasks"]; process is
\* config.get("process"), "" when the key is absent.
Config(given, nAgents, nTasks, proc) ==
    [given |-> given, agents |-> nAgents, tasks |-> nTasks, process |-> proc]
NoConfig == Config(FALSE, 0, 0, "")
Configs ==
    {NoConfig, Config(TRUE, 1, 1, ""), Config(TRUE, 1, 1, "hierarchical"),
     Config(TRUE, 1, 0, ""), Config(TRUE, 0, 1, "")}

\* The result of kickoff(): kind is "none" (None), "raw" (the output string)
\* or "full" (the full-output record).
Result(kind, final, outputs) ==
    [kind |-> kind, final_output |-> final, tasks_outputs |-> outputs]
NoResult == Result("none", 0, <<>>)

\* The Crew variables while no Crew is modelled (Spec, CadenceSpec).
CrewOff ==
    /\ cpc = "off"
    /\ process = "sequential"
    /\ agents = <<>>
    /\ tasks = <<>>
    /\ manager_llm = FALSE
    /\ manager_agent = {}
    /\ config = NoConfig
    /\ full_output = FALSE
    /\ max_rpm = FALSE
    /\ allow_delegation = [a \in AgentIds |-> FALSE]
    /\ agent_tools = [a \in AgentIds |-> <<>>]
    /\ i = 0
    /\ task_output = 0
    /\ metrics = <<>>
    /\ usage_metrics = <<>>
    /\ task_callback = NoCallback
    /\ usage = [a \in AgentIds |-> 0]
    /\ summary_keys = [a \in AgentIds |-> MetricKeys]
    /\ result = NoResult
    /\ rpm_stops = 0
    /\ error = ""
    /\ hpass = 0
    /\ nExec = 0
    /\ kickoffs = 0
    /\ procRuns = 0
    /\ kpre = KPre0

\* The arguments Crew(...) is called with.
CrewNew ==
    /\ cpc = "new"
    /\ process \in {"sequential", "hierarchical", "autonomous"}
    /\ agents \in {<<>>, <<"a1">>, <<"a1", "a2">>}
    /\ tasks \in TaskLists
    /\ manager_llm \in BOOLEAN
    /\ manager_agent \in {{}, {"m"}, {"a1"}}
    /\ config \in Configs
    /\ full_output \in BOOLEAN
    /\ max_rpm \in BOOLEAN
    /\ \E d \in BOOLEAN :
        allow_delegation = [a \in AgentIds |-> IF a = "a1" THEN d ELSE FALSE]
    /\ \E t \in {<<>>, <<"domain tool">>} :
        /\ manager_agent # {"m"} => t = <<>>
        /\ agent_tools = [a \in AgentIds |-> IF a = "m" THEN t ELSE <<>>]
    /\ i = 0
    /\ task_output = 0
    /\ metrics = <<>>
    /\ usage_metrics = <<>>
    /\ task_callback \in {NoCallback, "crew callback"}
    /\ usage = [a \in AgentIds |-> 0]
    /\ \E ks \in KeySets :
        /\ (Len(agents) < 2 \/ config.given) => ks = MetricKeys
        /\ summary_keys = [a \in AgentIds |-> IF a = "a2" THEN ks ELSE MetricKeys]
    /\ result = NoResult
    /\ rpm_stops = 0
    /\ error = ""
    /\ hpass = 0
    /\ nExec = 0
    /\ kickoffs = 0
    /\ procRuns = 0
    /\ kpre = KPre0

\* check_manager_llm (lines 181-201): the error it raises, "ok" if none.
check_manager_llm ==
    IF process = "hierarchical"
    THEN IF ~manager_llm /\ manager_agent = {}
         THEN "missing_manager_llm_or_manager_agent"
         ELSE IF manager_agent # {}
                  /\ \E k \in 1..Len(agents) : agents[k] \in manager_agent
              THEN "manager_agent_in_agents"
              ELSE "ok"
    ELSE "ok"

\* check_config (lines 203-214) with _setup_from_config (lines 224-231): the
\* error raised, "ok" if none.
check_config ==
    IF ~config.given /\ tasks = <<>> /\ agents = <<>>
    THEN "missing_keys"
    ELSE IF config.given /\ (config.agents = 0 \/ config.tasks = 0)
         THEN "missing_keys_in_config"
         ELSE "ok"

\* Crew(...): the model validators run in the order they are defined,
\* check_manager_llm before check_config; _setup_from_config (lines 233-235)
\* replaces process, agents and tasks by those of the config.
Construct ==
    /\ cpc = "new"
    /\ IF check_manager_llm # "ok"
       THEN /\ cpc' = "rejected"
            /\ error' = check_manager_llm
            /\ UNCHANGED <<process, agents, tasks>>
       ELSE IF check_config # "ok"
            THEN /\ cpc' = "rejected"
                 /\ error' = check_config
                 /\ UNCHANGED <<process, agents, tasks>>
            ELSE /\ cpc' = "ready"
                 /\ UNCHANGED error
                 /\ IF config.given
                    THEN /\ process' = IF config.process # ""
                                       THEN config.process ELSE process
                         /\ agents' = SubSeq(ConfigPool, 1, config.agents)
                         /\ tasks' = [k \in 1..config.tasks |->
                                          Task("c1", FALSE, NoCallback)]
                    ELSE UNCHANGED <<process, agents, tasks>>
    /\ UNCHANGED <<manager_llm, manager_agent, config, full_output, max_rpm,
                   allow_delegation, agent_tools, i, task_output, metrics,
                   usage_metrics, usage, result, rpm_stops, hpass, nExec,
                   kickoffs, procRuns, kpre>>
    /\ UNCHANGED crewFixed
    /\ UNCHANGED toolVars

\* _format_output(output) (lines 443-451).
_format_output(output) ==
    IF full_output
    THEN Result("full", output, [k \in 1..Len(tasks) |-> tasks[k].output])
    ELSE Result("raw", output, <<>>)

\* _finish_execution (lines 453-456): the number of stop_rpm_counter() calls
\* after it.
_finish_execution == IF max_rpm THEN rpm_stops + 1 ELSE rpm_stops

\* The manager of the running call of _run_hierarchical_process (lines
\* 391-405): manager_agent, or an Agent that call creates over manager_llm.
Manager ==
    IF manager_agent # {} THEN CHOOSE a \in manager_agent : TRUE
    ELSE IF hpass = 2 THEN "manager2" ELSE "manager"

\* len(manager.tools) > 0 on the manager_agent (line 394).
ManagerHasTools_never == FALSE
ManagerHasTools == Len(agent_tools[Manager]) > 0

\* The task_output the sequential loop carries on after task t returned
\* output (lines 320-321).
SeqNextContext_always(t, output) == output
SeqNextContext(t, output) == IF t.async_execution THEN task_output ELSE output

\* agent._token_process.get_summary(): the usage under each key of the
\* agent's summary.
get_summary(a) == [key \in summary_keys[a] |-> usage[a]]

\* _set_tasks_callbacks (lines 431-436): the callback of task t after it.
_set_tasks_callbacks(t) ==
    LET t1 == IF t.callback = NoCallback
              THEN [t EXCEPT !.callback = task_callback] ELSE t
    IN  [t1 EXCEPT !.callback = task_callback].callback

\* task.execute(...) on task k by agent a with the given context: the output
\* is a fresh value, named by the number of the execution.
Execute(k, a, context) ==
    [tasks EXCEPT ![k].output = nExec + 1, ![k].context = context,
                  ![k].by = a, ![k].execs = @ + 1]
\* The token counters after agent a executed a task: a used the LLM.
Used(a) == [usage EXCEPT ![a] = @ + 1]

\* kickoff(), lines 252-286, up to the selection of the process procedure:
\* _set_tasks_callbacks (line 256), then the process is selected. The input
\* interpolation and the agent executors (lines 255, 260-269) change none of
\* the state followed here.
Kickoff ==
    /\ cpc \in {"ready", "returned", "raised"}
    /\ kickoffs < MaxKickoffs
    /\ kickoffs' = kickoffs + 1
    /\ kpre' = [manager_tools |-> IF manager_agent # {}
                                  THEN Len(agent_tools[Manager]) ELSE 0,
                nExec |-> nExec,
                outputs |-> [k \in 1..Len(tasks) |-> tasks[k].output],
                rpm_stops |-> rpm_stops,
                callbacks |-> [k \in 1..Len(tasks) |-> tasks[k].callback]]
    /\ tasks' = [k \in 1..Len(tasks) |->
                    [tasks[k] EXCEPT !.execs = 0,
                                     !.callback = _set_tasks_callbacks(tasks[k])]]
    /\ metrics' = <<>>
    /\ result' = NoResult
    /\ error' = ""
    /\ procRuns' = 0
    /\ i' = 1
    /\ task_output' = 0
    /\ hpass' = 1
    /\ cpc' = CASE process = "sequential" -> "seq"
                [] process = "hierarchical" -> "hier"
                [] OTHER -> "auto"
    /\ UNCHANGED <<process, agents, manager_llm, manager_agent, config,
                   full_output, max_rpm, allow_delegation, agent_tools,
                   usage_metrics, usage, rpm_stops, nExec>>
    /\ UNCHANGED crewFixed
    /\ UNCHANGED toolVars

\* The delegation tools _run_sequential_process appends to task t
\* (lines 301-306).
SeqDelegationTools(t) ==
    LET agents_for_delegation == SelectSeq(agents, LAMBDA a : a # t.agent)
    IN  IF allow_delegation[t.agent] /\ Len(agents) > 1
            /\ Len(agents_for_delegation) > 0
        THEN AgentTools(agents_for_delegation)
        ELSE <<>>

\* _run_sequential_process, one turn of its loop (lines 300-327).
SeqTask ==
    /\ cpc = "seq"
    /\ i <= Len(tasks)
    /\ procRuns' = 1
    /\ LET withTools == [tasks EXCEPT ![i].tools = @ \o SeqDelegationTools(tasks[i])]
       IN  tasks' = [Execute(i, tasks[i].agent, task_output)
                        EXCEPT ![i].tools = withTools[i].tools]
    /\ nExec' = nExec + 1
    /\ usage' = Used(tasks[i].agent)
    /\ task_output' = SeqNextContext(tasks[i], nExec + 1)
    /\ i' = i + 1
    /\ UNCHANGED crewFixed
    /\ UNCHANGED <<cpc, process, agents, manager_llm, manager_agent, config,
                   full_output, max_rpm, allow_delegation, agent_tools, metrics,
                   usage_metrics, result, rpm_stops, error, hpass, kickoffs, kpre>>
    /\ UNCHANGED toolVars

\* _run_sequential_process after its loop (lines 329-330).
SeqFinish ==
    /\ cpc = "seq"
    /\ i > Len(tasks)
    /\ procRuns' = 1
    /\ rpm_stops' = _finish_execution
    /\ result' = _format_output(task_output)
    /\ cpc' = "metrics"
    /\ UNCHANGED <<process, agents, tasks, manager_llm, manager_agent, config,
                   full_output, max_rpm, allow_delegation, agent_tools, i,
                   task_output, metrics, usage_metrics, usage, error, hpass,
                   nExec, kickoffs, kpre>>
    /\ UNCHANGED crewFixed
    /\ UNCHANGED toolVars

\* _run_hierarchical_process up to its loop (lines 390-407).
HierSetup ==
    /\ cpc = "hier"
    /\ procRuns' = procRuns + 1
    /\ IF manager_agent # {}
       THEN /\ allow_delegation' = [allow_delegation EXCEPT ![Manager] = TRUE]
            /\ UNCHANGED usage
            /\ IF ManagerHasTools
               THEN /\ cpc' = "raised"
                    /\ error' = "Manager agent should not have tools"
                    /\ UNCHANGED agent_tools
               ELSE /\ cpc' = "hier_loop"
                    /\ agent_tools' = [agent_tools EXCEPT ![Manager] = AgentTools(agents)]
                    /\ UNCHANGED error
       ELSE /\ cpc' = "hier_loop"
            /\ agent_tools' = [agent_tools EXCEPT ![Manager] = AgentTools(agents)]
            /\ usage' = [usage EXCEPT ![Manager] = 0]
            /\ UNCHANGED <<allow_delegation, error>>
    /\ i' = 1
    /\ task_output' = 0
    /\ UNCHANGED <<process, agents, tasks, manager_llm, manager_agent, config,
                   full_output, max_rpm, metrics, usage_metrics, result,
                   rpm_stops, hpass, nExec, kickoffs, kpre>>
    /\ UNCHANGED crewFixed
    /\ UNCHANGED toolVars

\* Mutant: the output of an async_execution task is not carried on.
HierNextContext_sync(t, output) ==
    IF t.async_execution THEN task_output ELSE output
\* The task_output the hierarchical loop carries on after task t returned
\* output (line 418).
HierNextContext(t, output) == output

\* _run_hierarchical_process, one turn of its loop (lines 408-426).
HierTask ==
    /\ cpc = "hier_loop"
    /\ i <= Len(tasks)
    /\ tasks' = [Execute(i, Manager, task_output)
                    EXCEPT ![i].passed = agent_tools[Manager]]
    /\ nExec' = nExec + 1
    /\ usage' = Used(Manager)
    /\ task_output' = HierNextContext(tasks[i], nExec + 1)
    /\ i' = i + 1
    /\ UNCHANGED crewFixed
    /\ UNCHANGED <<cpc, process, agents, manager_llm, manager_agent, config,
                   full_output, max_rpm, allow_delegation, agent_tools, metrics,
                   usage_metrics, result, rpm_stops, error, hpass, kickoffs,
                   procRuns, kpre>>
    /\ UNCHANGED toolVars

\* _run_hierarchical_process after its loop (lines 428-429), and kickoff()
\* taking its result: lines 276-277 for the first call, which is followed
\* by the second call of line 279, and lines 279-280 for the second.
HierFinish ==
    /\ cpc = "hier_loop"
    /\ i > Len(tasks)
    /\ rpm_stops' = _finish_execution
    /\ result' = _format_output(task_output)
    /\ metrics' = Append(metrics, get_summary(Manager))
    /\ IF hpass = 1
       THEN /\ hpass' = 2
            /\ cpc' = "hier"
       ELSE /\ cpc' = "metrics"
            /\ UNCHANGED hpass
    /\ UNCHANGED <<process, agents, tasks, manager_llm, manager_agent, config,
                   full_output, max_rpm, allow_delegation, agent_tools, i,
                   task_output, usage_metrics, usage, error, nExec, kickoffs,
                   procRuns, kpre>>
    /\ UNCHANGED crewFixed
    /\ UNCHANGED toolVars

\* _run_autonomous_process (lines 332-382): it executes no task of this
\* Crew, never calls _finish_execution and returns None, unless building the
\* tool descriptions or the planning crew raises.
AutoRun ==
    /\ cpc = "auto"
    /\ procRuns' = procRuns + 1
    /\ \E raises \in BOOLEAN :
        IF raises
        THEN /\ cpc' = "raised"
             /\ error' = "autonomous process"
        ELSE /\ cpc' = "metrics"
             /\ UNCHANGED error
    /\ result' = NoResult
    /\ UNCHANGED <<process, agents, tasks, manager_llm, manager_agent, config,
                   full_output, max_rpm, allow_delegation, agent_tools, i,
                   task_output, metrics, usage_metrics, usage, rpm_stops,
                   hpass, nExec, kickoffs, kpre>>
    /\ UNCHANGED crewFixed
    /\ UNCHANGED toolVars

\* sum([m[key] for m in ms]) (line 292), for summaries that all hold key.
RECURSIVE SumKey(_, _)
SumKey(ms, key) ==
    IF ms = <<>> THEN 0 ELSE Head(ms)[key] + SumKey(Tail(ms), key)

\* m[key] raises KeyError for some summary m of ms and some key of ms[1]
\* (lines 291-293).
KeyMissing(ms) ==
    \E k \in 1..Len(ms) : \E key \in DOMAIN ms[1] : key \notin DOMAIN ms[k]

\* kickoff(), lines 288-295: the usage summaries of the manager calls and of
\* every agent are summed under the keys of metrics[0], which raises
\* IndexError when there is no summary and KeyError when a summary lacks
\* one of these keys; then the result is returned.
Aggregate ==
    /\ cpc = "metrics"
    /\ LET all == metrics \o [k \in 1..Len(agents) |-> get_summary(agents[k])]
       IN  /\ metrics' = all
           /\ IF all = <<>>
              THEN /\ cpc' = "raised"
                   /\ error' = "IndexError"
                   /\ UNCHANGED usage_metrics
              ELSE IF KeyMissing(all)
                   THEN /\ cpc' = "raised"
                        /\ error' = "KeyError"
                        /\ UNCHANGED usage_metrics
                   ELSE /\ cpc' = "returned"
                        /\ usage_metrics' =
                              [key \in DOMAIN all[1] |-> SumKey(all, key)]
                        /\ UNCHANGED error
    /\ UNCHANGED <<process, agents, tasks, manager_llm, manager_agent, config,
                   full_output, max_rpm, allow_delegation, agent_tools, i,
                   task_output, usage, result, rpm_stops, hpass, nExec,
                   kickoffs, procRuns, kpre>>
    /\ UNCHANGED crewFixed
    /\ UNCHANGED toolVars

\* --------------------------------------------------------- specifications
Init == ToolInit /\ CrewOff

Next ==
    \/ NewToolUsage
    \/ CallUse(MaxCalls)
    \/ ParseOk(ToolCalling)
    \/ ParseFail
    \/ SelectTool
    \/ UseRepeated
    \/ UseCached
    \/ UseRunOk(Results)
    \/ UseRunRaise(Errors)

Spec == Init /\ [][Next]_vars

\* The environment of CadenceSpec: the calls that resolve to a tool, one
\* truthy result, one error.
CadenceCalls == {c \in ToolCalling : c.function_name = "search"}

CadenceNext ==
    \/ NewToolUsage
    \/ CallUse(MaxCadenceCalls)
    \/ ParseOk(CadenceCalls)
    \/ ParseFail
    \/ SelectTool
    \/ UseRepeated
    \/ UseCached
    \/ UseRunOk({"r1"})
    \/ UseRunRaise({"e1"})

CadenceSpec == Init /\ [][CadenceNext]_vars

\* TermSpec: the calls of Spec under the scheduling of the code: use() is
\* one sequential Python call, so once it has started, its next step (the
\* parser returning or raising, the name resolution, the tool returning or
\* raising) is eventually taken.
TermNext ==
    \/ NewToolUsage
    \/ CallUse(MaxTermCalls)
    \/ ParseOk(ToolCalling)
    \/ ParseFail
    \/ SelectTool
    \/ UseRepeated
    \/ UseCached
    \/ UseRunOk(Results)
    \/ UseRunRaise(Errors)

UseStep ==
    \/ ParseOk(ToolCalling)
    \/ ParseFail
    \/ SelectTool
    \/ UseRepeated
    \/ UseCached
    \/ UseRunOk(Results)
    \/ UseRunRaise(Errors)

TermSpec == Init /\ [][TermNext]_vars /\ WF_vars(UseStep)

CrewInit == ToolInit /\ CrewNew

CrewNext ==
    \/ Construct
    \/ Kickoff
    \/ SeqTask
    \/ SeqFinish
    \/ HierSetup
    \/ HierTask
    \/ HierFinish
    \/ AutoRun
    \/ Aggregate

CrewSpec == CrewInit /\ [][CrewNext]_vars

\* ================================================================ claims
\* ------------------------------------------------------- ToolUsage (Spec)
\* The positions in log of the events of kind ev.
LogEvs(ev) == {k \in 1..Len(log) : log[k].ev = ev}
\* The calls the parser returned during the current top-level call.
ParsedCalls == UNION {log[k].call : k \in LogEvs("parse_ok")}
\* A top-level use() has ended; it began on a fresh ToolUsage.
CallEnded == pc = "idle" /\ ret.status # "none"
Fresh == pre.run_attempts = 1

\* C1: use() always returns an observation to its caller; no exception
\* propagates out of use(), whatever parsing, name resolution and tool
\* execution do.
C1_UseNeverRaises == ret.status # "raised"

\* The case of C2: a call on a fresh ToolUsage has ended, every parse
\* returned the same call, which resolved to a tool and had no cached value,
\* and no execution of the tool returned.
C2_Witness ==
    /\ CallEnded /\ Fresh
    /\ LogEvs("parse_fail") = {} /\ LogEvs("not_found") = {}
    /\ Cardinality(ParsedCalls) = 1
    /\ LogEvs("run_ok") = {}
    /\ \A c \in ParsedCalls : cache_read(c) = None

\* C2: on a fresh ToolUsage whose parser keeps returning the same call, with
\* no cached value, and whose tool raises on every execution, one use() call
\* executes the tool exactly 2 times and then returns the
\* tool_usage_exception message holding the detail of the last error.
C2_RetryBound ==
    C2_Witness =>
        /\ Cardinality(LogEvs("run_raise")) = 2
        /\ log[Len(log)].ev = "run_raise"
        /\ ret = Returned(Obs("tool_usage_exception", log[Len(log)].text, FALSE))

\* The case of C3: a call on a fresh ToolUsage has ended and every parse
\* attempt of it failed.
C3_Witness ==
    /\ CallEnded /\ Fresh
    /\ Len(log) > 0
    /\ \A k \in 1..Len(log) : log[k].ev = "parse_fail"

\* C3: on a fresh ToolUsage, when every parse attempt fails, one use() call
\* makes exactly 2 parse attempts and returns the tool_usage_error message,
\* with no tool resolved or executed and no exception raised.
C3_ParseBound ==
    C3_Witness =>
        /\ Len(log) = 2
        /\ ret = Returned(Obs("tool_usage_error", "", FALSE))
        /\ tool = 0 /\ calling = {}
        /\ used_tools = pre.used_tools

\* C4: a use() call that parses to the call recorded as last used by the
\* preceding use() call returns the task_repeated_usage message without
\* running the tool, for every argument mapping.
C4_RepeatedGuard ==
    [][(pc = "use" /\ Len(log) = 1 /\ calling # {} /\ calling = last_used_tool)
        => /\ ret'.status = "returned"
           /\ ret'.obs.kind = "task_repeated_usage"
           /\ log'[Len(log')].ev = "repeated"]_vars

\* A result is stored for tool t and arguments a, under some function name
\* that resolves to t.
StoredFor(t, a) ==
    \E n \in FunctionNames : _select_tool(n) = t /\ cache[<<n, a>>] # None

\* C5: once a tool's run has returned a result for (tool, arguments), run is
\* not invoked again for that key, and a call that reaches the cache lookup
\* with it returns the stored value: for every result value and for function
\* names differing in letter case.
C5_CacheOnce ==
    [][\A c \in calling :
         (pc = "use" /\ PastGuard(c)
            /\ StoredFor(_select_tool(c.function_name), c.arguments))
         => /\ log'[Len(log')].ev = "cache_hit"
            /\ ret' = Returned(Obs("result", cache_read(c), ret'.obs.reminder))]_vars

\* ------------------------------------------------ ToolUsage (CadenceSpec)
\* The case of C6: six successful calls, the sixth with the reminder block.
C6_Witness ==
    pc = "idle" /\ allOk /\ nCalls = 6 /\ ret.obs.reminder

\* C6: the task's counter starting at 0, over a sequence of successful use()
\* calls the observation of the k-th call holds the tools reminder block iff
\* k is a multiple of 3.
C6_Cadence ==
    (pc = "idle" /\ nCalls >= 1 /\ allOk)
        => /\ ret.status = "returned"
           /\ ret.obs.reminder <=> (nCalls % 3 = 0)

\* ------------------------------------------------------- Crew (CrewSpec)
\* The Crew passed construction.
Constructed == cpc \notin {"new", "rejected"}

\* C7: in the sequential and the hierarchical topology one kickoff() runs
\* the process procedure exactly once and executes each task exactly once.
C7_ExactlyOnce ==
    (cpc = "returned" /\ process \in {"sequential", "hierarchical"})
        => /\ procRuns = 1
           /\ \A k \in 1..Len(tasks) : tasks[k].execs = 1

\* The Crews of C8, as they are when kickoff() starts: at least one agent and
\* one task; sequential, hierarchical with a manager_llm, or hierarchical with
\* a manager_agent that holds no tools and is no member agent.
C8_ValidCrew ==
    /\ Len(agents) >= 1 /\ Len(tasks) >= 1
    /\ \/ process = "sequential"
       \/ /\ process = "hierarchical"
          /\ \/ manager_agent = {} /\ manager_llm
             \/ /\ manager_agent # {}
                /\ kpre.manager_tools = 0
                /\ \A k \in 1..Len(agents) : agents[k] \notin manager_agent

\* C8: for every such Crew, with task executions that return, kickoff()
\* returns a result instead of raising.
C8_KickoffReturns == ~(cpc = "raised" /\ C8_ValidCrew)

\* C9: a constructed Crew has at least one agent and at least one task, so
\* kickoff() never starts on a Crew lacking either.
C9_AgentsAndTasks == Constructed => (Len(agents) >= 1 /\ Len(tasks) >= 1)

\* C10: a Crew whose process is hierarchical is constructed only with a
\* manager (manager_llm or manager_agent) that is no member agent; the two
\* manager errors are raised only for a hierarchical Crew lacking that, and
\* before any task executes.
C10_ManagerChecked ==
    /\ (Constructed /\ process = "hierarchical")
        => /\ manager_llm \/ manager_agent # {}
           /\ \A k \in 1..Len(agents) : agents[k] \notin manager_agent
    /\ (cpc = "rejected" /\ error \in {"missing_manager_llm_or_manager_agent",
                                        "manager_agent_in_agents"})
        => /\ process = "hierarchical"
           /\ \/ ~manager_llm /\ manager_agent = {}
              \/ \E k \in 1..Len(agents) : agents[k] \in manager_agent
           /\ nExec = 0

\* The task outputs as they are now.
Outputs == [k \in 1..Len(tasks) |-> tasks[k].output]
\* No task was executed since the current kickoff() started, and no task
\* output was produced or overwritten.
NoTaskRan ==
    /\ nExec = kpre.nExec
    /\ Outputs = kpre.outputs
    /\ \A k \in 1..Len(tasks) : tasks[k].execs = 0

\* The case of C11: a hierarchical kickoff() on a manager_agent that held
\* tools when it started has raised.
C11_Witness ==
    /\ cpc = "raised" /\ process = "hierarchical"
    /\ manager_agent # {} /\ kpre.manager_tools > 0
    /\ kickoffs >= 1

\* C11: a hierarchical kickoff() whose manager_agent holds tools when it
\* starts fails when the process is selected: it gets no further than the
\* manager set-up, where it raises, and no task is executed and no task
\* output is produced or overwritten by it.
C11_ManagerToolsFail ==
    (Constructed /\ kickoffs >= 1 /\ process = "hierarchical"
        /\ manager_agent # {} /\ kpre.manager_tools > 0)
        => /\ cpc \in {"hier", "raised"}
           /\ cpc = "raised" => error = "Manager agent should not have tools"
           /\ hpass = 1
           /\ NoTaskRan

\* The sequential process of the current kickoff() has started.
InSequential ==
    /\ process = "sequential" /\ kickoffs >= 1
    /\ cpc \in {"seq", "metrics", "returned", "raised"}
\* The output of the last task before task k that is not async_execution,
\* 0 (the empty context) when there is none.
LastSyncOutput(k) ==
    LET S == {j \in 1..(k - 1) : ~tasks[j].async_execution}
    IN  IF S = {} THEN 0
        ELSE tasks[CHOOSE j \in S : \A h \in S : h <= j].output

\* The case of C12: a sequential kickoff() returned on three tasks, the
\* second one async_execution, and the third got the output of the first.
C12_Witness ==
    /\ InSequential /\ cpc = "returned"
    /\ Len(tasks) = 3
    /\ ~tasks[1].async_execution /\ tasks[2].async_execution
    /\ tasks[3].context = tasks[1].output /\ tasks[3].context # 0

\* C12: the sequential process executes the tasks in declaration order, each
\* by its own agent; the context passed to a task is the output of the most
\* recent preceding task that is not async_execution, the empty context when
\* there is none; the output of an async_execution task is never the context
\* of a later task.
C12_SequentialContext ==
    InSequential =>
        \A k \in 1..Len(tasks) :
            IF k < i
            THEN /\ tasks[k].execs = 1
                 /\ tasks[k].output = kpre.nExec + k
                 /\ tasks[k].by = tasks[k].agent
                 /\ tasks[k].context = LastSyncOutput(k)
                 /\ \A j \in 1..(k - 1) :
                        tasks[j].async_execution
                            => tasks[k].context # tasks[j].output
            ELSE tasks[k].execs = 0

\* C13: the sequential process adds the delegation tools to a task once:
\* after any number of kickoff() calls a task whose agent allows delegation,
\* in a Crew of more than one agent, holds exactly one set of delegation
\* tools, and every other task holds none.
C13_DelegationOnce ==
    (InSequential /\ cpc = "returned")
        => \A k \in 1..Len(tasks) :
               tasks[k].tools =
                   IF allow_delegation[tasks[k].agent] /\ Len(agents) > 1
                   THEN AgentTools(SelectSeq(agents, LAMBDA a : a # tasks[k].agent))
                   ELSE <<>>

\* C14: kickoff() returns the output of the last task in execution order:
\* as the raw output when full_output is off, and when it is on as the
\* final output of a record that also holds every task's output in
\* execution order; in every topology and whichever tasks are
\* async_execution.
C14_FinalOutput ==
    (cpc = "returned" /\ Len(tasks) >= 1)
        => /\ result.kind = IF full_output THEN "full" ELSE "raw"
           /\ result.final_output = tasks[Len(tasks)].output
           /\ full_output => result.tasks_outputs = Outputs

\* kickoff() has been called and has installed the task callbacks.
Started == kickoffs >= 1 /\ cpc \notin {"new", "rejected", "ready"}

\* C15: once kickoff() has installed the callbacks, every task that had no
\* callback holds the Crew's task_callback, and every task that defined a
\* callback of its own still holds that callback.
C15_CallbacksKept ==
    Started =>
        \A k \in 1..Len(tasks) :
            tasks[k].callback =
                IF kpre.callbacks[k] = NoCallback THEN task_callback
                ELSE kpre.callbacks[k]

\* The agents whose usage a returned kickoff() reports: the member agents
\* and, in the hierarchical process, the manager: manager_agent, or the
\* Agents created for its calls.
Members == {agents[k] : k \in 1..Len(agents)}
Contributors ==
    Members \cup
        IF process # "hierarchical" THEN {}
        ELSE IF manager_agent # {} THEN manager_agent
        ELSE {"manager", "manager2"}
\* The sum of the token counters of the agents of S.
RECURSIVE SumUsage(_)
SumUsage(S) ==
    IF S = {} THEN 0
    ELSE LET a == CHOOSE x \in S : TRUE IN usage[a] + SumUsage(S \ {a})
\* Every contributing summary has the same keys.
SameKeys == \A a \in Contributors : summary_keys[a] = MetricKeys

\* C16: after a kickoff() that returns, usage_metrics maps each metric key
\* to the sum of that key over the summaries of the member agents and, in
\* the hierarchical process, of the manager, each contributing agent
\* counted exactly once.
C16_UsageSummed ==
    (cpc = "returned" /\ SameKeys)
        => /\ DOMAIN usage_metrics = MetricKeys
           /\ \A key \in MetricKeys : usage_metrics[key] = SumUsage(Contributors)

\* C17: when the contributing summaries do not all have the same key set,
\* the aggregation raises instead of producing usage_metrics: kickoff()
\* returns only when every summary has the keys of the first one and no
\* others.
C17_KeySetsAgree ==
    cpc = "returned"
        => \A k \in 1..Len(metrics) : DOMAIN metrics[k] = DOMAIN metrics[1]

\* C18: whenever kickoff() returns on a Crew with max_rpm set,
\* stop_rpm_counter() was called during that kickoff(), in the sequential,
\* the hierarchical and the autonomous process alike; on a Crew without
\* max_rpm it is never called.
C18_RpmStopped ==
    /\ (cpc = "returned" /\ max_rpm) => rpm_stops > kpre.rpm_stops
    /\ ~max_rpm => rpm_stops = 0

\* ------------------------------------------- ToolUsage (Spec), resumed
\* Some registered tool has the name, letter case aside.
Registered(name) == \E k \in 1..Len(tools) : lower(tools[k]) = lower(name)

\* The case of C19: on a fresh ToolUsage the first parse of a call returned a
\* name no tool has, and the call ended there, with retries left.
C19_Witness ==
    /\ CallEnded /\ Fresh
    /\ Len(log) = 2 /\ log[2].ev = "not_found"
    /\ run_attempts = 1

\* C19: the parsed function name is resolved, letter case aside, to the first
\* registered tool of that name; when no tool has the name, the call ends as
\* tool-not-found with no retry: no tool is executed, and the attempt
\* counter, the cache, the last used tool and the task's counter are left
\* as they were.
C19_SelectTool ==
    [][pc = "select" =>
        \A c \in calling :
            IF Registered(c.function_name)
            THEN /\ pc' = "use"
                 /\ tool' \in 1..Len(tools)
                 /\ lower(tools[tool']) = lower(c.function_name)
                 /\ \A j \in 1..(tool' - 1) :
                        lower(tools[j]) # lower(c.function_name)
                 /\ ret' = ret
            ELSE /\ pc' = "idle"
                 /\ ret' = Raised
                 /\ log' = Append(log, Event("not_found", {c}, ""))
                 /\ UNCHANGED <<run_attempts, cache, last_used_tool,
                                used_tools, tool>>]_vars

\* The failures of the current call: failed parses and raising executions.
Failures == LogEvs("parse_fail") \cup LogEvs("run_raise")
\* The call returned one of the two terminal error messages.
TerminalError ==
    /\ ret.status = "returned"
    /\ ret.obs.kind \in {"tool_usage_error", "tool_usage_exception"}
\* The events of the current call are of the kinds evs, in that order, and
\* then possibly more.
Begins(evs) ==
    /\ Len(log) >= Len(evs)
    /\ \A k \in 1..Len(evs) : log[k].ev = evs[k]

\* The case of C20: on a fresh ToolUsage a call whose first parse failed,
\* whose second parse succeeded and whose tool then raised has ended.
C20_Witness ==
    CallEnded /\ Fresh /\ Begins(<<"parse_fail", "parse_ok", "run_raise">>)

\* C20: failed parses and raising executions count on one attempt counter
\* with bound 2: one use() call on a fresh ToolUsage tolerates exactly one
\* failure of either kind and returns a terminal error message at the
\* second. After a failed parse and a successful re-parse, a raising tool
\* ends the call with the execution-error message after that single
\* execution; after a raising tool, a failed re-parse ends it with the
\* parse-error message after that single re-parse.
C20_SharedCounter ==
    (CallEnded /\ Fresh) =>
        /\ Cardinality(Failures) <= 2
        /\ TerminalError <=> Cardinality(Failures) = 2
        /\ Begins(<<"parse_fail", "parse_ok", "run_raise">>)
            => /\ Len(log) = 3
               /\ ret = Returned(Obs("tool_usage_exception", log[3].text, FALSE))
        /\ Begins(<<"parse_ok", "run_raise", "parse_fail">>)
            => /\ Len(log) = 3
               /\ ret = Returned(Obs("tool_usage_error", "", FALSE))

\* C21: the last used tool is changed only by a call whose tool returned a
\* result or whose result came from the cache, and then to that call; a
\* call whose tool raised, a failed parse, an unresolved name and the
\* repeated-usage short-circuit leave it as it was.
C21_LastUsedFrame ==
    [][last_used_tool' # last_used_tool
        => /\ Len(log') = Len(log) + 1
           /\ log'[Len(log')].ev \in {"cache_hit", "run_ok"}
           /\ last_used_tool' = log'[Len(log')].call]_vars

\* ------------------------------------------- Crew (CrewSpec), resumed
\* A call of _run_hierarchical_process of the current kickoff() is in its
\* task loop or past it.
InHierarchical ==
    /\ process = "hierarchical" /\ kickoffs >= 1
    /\ cpc \in {"hier_loop", "metrics", "returned"}

\* The case of C22: a hierarchical kickoff() over two member agents returned
\* on three tasks, the second one async_execution, and the third got the
\* output of the second.
C22_Witness ==
    /\ InHierarchical /\ cpc = "returned"
    /\ Len(agents) = 2 /\ Len(tasks) = 3
    /\ tasks[2].async_execution
    /\ tasks[3].context = tasks[2].output
    /\ tasks[3].passed = <<"ask a1", "ask a2">>

\* C22: in the hierarchical process the manager executes every task, in
\* declaration order; each task gets as context the output of the task just
\* before it, the empty context for the first, whether or not tasks are
\* async_execution, and as tools the delegation tools of every member agent.
C22_HierarchicalContext ==
    InHierarchical =>
        \A k \in 1..Len(tasks) :
            k < i =>
                /\ tasks[k].by = Manager
                /\ tasks[k].output > kpre.nExec
                /\ tasks[k].output = tasks[1].output + (k - 1)
                /\ tasks[k].context = IF k = 1 THEN 0 ELSE tasks[k - 1].output
                /\ tasks[k].passed = [j \in 1..Len(agents) |-> AskTool(agents[j])]

\* ------------------------------------------------- ToolUsage (TermSpec)
\* The parse attempts and the tool executions of the current call.
ParseAttempts == LogEvs("parse_ok") \cup LogEvs("parse_fail")
Executions == LogEvs("run_ok") \cup LogEvs("run_raise")

\* The case of C23: a call on a fresh ToolUsage has ended after 2 parse
\* attempts and 2 tool executions.
C23_Witness ==
    /\ CallEnded /\ Fresh
    /\ Cardinality(ParseAttempts) = 2
    /\ Cardinality(Executions) = 2

\* C23: every top-level use() call on a fresh ToolUsage ends, by returning
\* or raising, whatever the parses, the executions and the repeated-usage
\* guard do, after at most 2 parse attempts and at most 2 tool executions.
C23_Terminates ==
    /\ [](Fresh => /\ Cardinality(ParseAttempts) <= 2
                   /\ Cardinality(Executions) <= 2)
    /\ (Fresh /\ pc # "idle") ~> CallEnded

\* The step records a failed parse or a raising execution.
FailureStep ==
    /\ Len(log') = Len(log) + 1
    /\ log'[Len(log')].ev \in {"parse_fail", "run_raise"}

\* The case of C24: a later call on an instance that had recorded one
\* failure met its first failure and returned a terminal error message.
C24_Witness ==
    /\ CallEnded /\ nCalls >= 2
    /\ pre.run_attempts = 2
    /\ Cardinality(Failures) = 1 /\ Len(log) <= 2
    /\ TerminalError

\* C24: the attempt counter of a ToolUsage instance is never reset: no step
\* on the same instance lowers it, across use() calls; so once one failure
\* is recorded, the next failed parse or raising execution, in whichever
\* call, ends that call with the terminal error message at once, and past
\* the bound no failure is retried.
C24_NeverReset ==
    [][~NewToolUsage =>
        /\ run_attempts' >= run_attempts
        /\ (run_attempts > 1 /\ FailureStep)
            => /\ pc' = "idle"
               /\ ret'.status = "returned"
               /\ ret'.obs.kind \in {"tool_usage_error", "tool_usage_exception"}]_vars

\* ------------------------------------- ToolUsage (CadenceSpec), resumed
\* The last event of the current call is of kind ev.
LastEv(ev) == Len(log) >= 1 /\ log[Len(log)].ev = ev

\* The case of C25: a call with string-valued arguments, equal to the last
\* used one and with a result in the cache, got the task_repeated_usage
\* message, with the reminder block.
C25_Witness ==
    /\ CallEnded /\ LastEv("repeated")
    /\ ret.obs.reminder
    /\ \A c \in calling : ~JoinRaises(c) /\ Truthy(cache_read(c))

\* C25: the repeated-usage guard comes before the cache lookup: a call with
\* string-valued arguments that equals the last used call gets the
\* task_repeated_usage message also when the cache holds a result for it;
\* that observation counts on the task's counter and holds the reminder
\* block at every third count; and a cached value is returned to such a call
\* only when it differs from the last used one.
C25_GuardBeforeCache ==
    [][pc = "use" =>
        \A c \in calling :
            ~JoinRaises(c) =>
                /\ calling = last_used_tool
                    => /\ log' = Append(log, Event("repeated", {c}, ""))
                       /\ used_tools' = used_tools + 1
                       /\ ret' = Returned(Obs("task_repeated_usage", "",
                                              used_tools' % 3 = 0))
                       /\ UNCHANGED <<cache, last_used_tool>>
                /\ (Len(log') > Len(log) /\ log'[Len(log')].ev = "cache_hit")
                    => calling # last_used_tool]_vars

====
